---- MODULE Spec2Model ----
(***************************************************************************)
(* A model of scheduler.py: the daily run of main() over the two state     *)
(* files done_today.txt and posted.txt, and the functions it is built      *)
(* from (get_feed, get_clicky, check_posted, get_posting_times,            *)
(* schedule_buffer).                                                       *)
(*                                                                         *)
(* Text is a sequence of tokens.  A token is a piece of text without "/",  *)
(* blank or newline inside it, or one of the separators "/", " ", "\n".    *)
(* Splitting, stripping and line reading work on the separators, as the    *)
(* Python string methods do on the characters.                             *)
(***************************************************************************)
EXTENDS Integers, Sequences, FiniteSets, TLC

\* ------------------------------------------------------------------ bounds

\* Days of the model's calendar: 1..MaxDay.
MaxDay == 2
\* Longest item list an API response carries.
MaxItems == 1
\* Largest per-source article count of the configuration.
MaxCount == 2

\* Longest candidate list handed to check_posted on its own.
MaxSource == 3
\* Longest history handed to check_posted on its own.
MaxPosted == 2
\* Longest list of posting hours handed to get_posting_times on its own.
MaxHours == 2
\* Longest item list handed to get_feed on its own.
MaxFeed == 3

\* ------------------------------------------------------------------- text

NL == "\n"
SP == " "
SLASH == "/"

\* The characters str.strip() removes.
Whitespace == {SP, NL}

Min(a, b) == IF a <= b THEN a ELSE b

RECURSIVE LStrip(_)
LStrip(s) ==
  IF s # <<>> /\ Head(s) \in Whitespace THEN LStrip(Tail(s)) ELSE s

RECURSIVE RStrip(_)
RStrip(s) ==
  IF s # <<>> /\ s[Len(s)] \in Whitespace
  THEN RStrip(SubSeq(s, 1, Len(s) - 1))
  ELSE s

\* str.strip()
Strip(s) == RStrip(LStrip(s))

\* str.split(sep): the pieces between the separators, empty pieces kept.
RECURSIVE SplitFrom(_, _, _)
SplitFrom(s, sep, cur) ==
  IF s = <<>> THEN <<cur>>
  ELSE IF Head(s) = sep THEN <<cur>> \o SplitFrom(Tail(s), sep, <<>>)
  ELSE SplitFrom(Tail(s), sep, Append(cur, Head(s)))

Split(s, sep) == SplitFrom(s, sep, <<>>)

\* f.readlines(): the lines of a text, each with its newline; a last line
\* without a newline is a line too, an empty rest is not.
RECURSIVE ReadLinesFrom(_, _)
ReadLinesFrom(s, cur) ==
  IF s = <<>> THEN (IF cur = <<>> THEN <<>> ELSE <<cur>>)
  ELSE IF Head(s) = NL THEN <<Append(cur, NL)>> \o ReadLinesFrom(Tail(s), <<>>)
  ELSE ReadLinesFrom(Tail(s), Append(cur, Head(s)))

ReadLines(text) == ReadLinesFrom(text, <<>>)

\* [i.strip() for i in f.readlines()]
LoadPosted(text) ==
  LET ls == ReadLines(text) IN [k \in 1..Len(ls) |-> Strip(ls[k])]

\* for i in posted: f.write(f"{i}\n")
RECURSIVE WritePostedText(_)
WritePostedText(posted) ==
  IF posted = <<>> THEN <<>>
  ELSE Head(posted) \o <<NL>> \o WritePostedText(Tail(posted))

InSeq(x, s) == \E k \in 1..Len(s) : s[k] = x

\* ------------------------------------------------------------------- time

\* calendar.timegm of 00:00:00 on day 0 of the model's calendar: a multiple
\* of 86400 whose ten digits are those of a present-day epoch.
Epoch0 == 18600 * 86400

SecondsPerDay == 24 * 3600

\* The calendar day and the hour of day of the time t (epoch seconds), as
\* datetime.utcnow() and datetime.utcfromtimestamp(t) give them.
DayOf(t) == (t - Epoch0) \div SecondsPerDay
HourOf(t) == (t % SecondsPerDay) \div 3600

\* calendar.timegm(datetime(y, m, d, hour, minute, second).timetuple())
TimeGm(day, hour, minute, second) ==
  Epoch0 + day * SecondsPerDay + hour * 3600 + minute * 60 + second

\* datetime.utcnow().strftime("%Y-%m-%d %H:%M:%S"): the date, a blank and the
\* time of day, the date one token per calendar day.
StrfTime(t) == <<ToString(DayOf(t)), SP, ToString(t % SecondsPerDay)>>

\* utc_today.split(' ')[0]
DatePart(stamp) == Split(stamp, SP)[1]

DateStr(t) == DatePart(StrfTime(t))

\* len(str(n)) of an int: the digits, and the sign of a negative number.
RECURSIVE Digits(_)
Digits(n) == IF n < 10 THEN 1 ELSE 1 + Digits(n \div 10)

StrLen(n) == IF n < 0 THEN 1 + Digits(-n) ELSE Digits(n)

\* --------------------------------------------------------------- get_feed

\* i.get(key, default) of a JSON object
Get(obj, key, default) == IF key \in DOMAIN obj THEN obj[key] ELSE default

\* Article._make([title, url, engagement, published])
Article(i) ==
  [title |-> Get(i, "title", <<>>), url |-> Get(i, "originId", <<>>),
   engagement |-> Get(i, "engagement", 0), published |-> i.published]

\* (now - datetime.utcfromtimestamp(published / 1000)).days, with published
\* kept in seconds: timedelta.days rounds towards minus infinity.
DeltaDays(now, published) == (now - published) \div SecondsPerDay

\* The loop of get_feed over the items: an item without a publish time is
\* skipped, the first item aged exactly time_delta days ends the loop.
RECURSIVE FeedLoop(_, _, _)
FeedLoop(data, now, time_delta) ==
  IF data = <<>> THEN <<>>
  ELSE LET i == Head(data) IN
    IF Get(i, "published", 0) = 0 THEN FeedLoop(Tail(data), now, time_delta)
    ELSE IF DeltaDays(now, i.published) = time_delta THEN <<>>
    ELSE <<Article(i)>> \o FeedLoop(Tail(data), now, time_delta)

\* articles.sort(key=engagement, reverse=True): a stable sort, articles of
\* equal engagement keep their order.
RECURSIVE InsertByEngagement(_, _)
InsertByEngagement(sorted, a) ==
  IF sorted = <<>> THEN <<a>>
  ELSE IF Head(sorted).engagement >= a.engagement
       THEN <<Head(sorted)>> \o InsertByEngagement(Tail(sorted), a)
       ELSE <<a>> \o sorted

RECURSIVE SortByEngagement(_)
SortByEngagement(articles) ==
  IF articles = <<>> THEN <<>>
  ELSE InsertByEngagement(SortByEngagement(SubSeq(articles, 1, Len(articles) - 1)),
                          articles[Len(articles)])

\* get_feed without the check of the response
GetFeedUnchecked(response, now, time_delta) ==
  [exit |-> -1,
   articles |-> SortByEngagement(FeedLoop(Get(response, "items", <<>>), now, time_delta))]

\* get_feed on the response of the stream request: exit is 1 when the
\* response holds no items (sys.exit(1)), and -1 when the function returns.
GetFeed(response, now, time_delta) ==
  IF Get(response, "items", <<>>) = <<>>
  THEN [exit |-> 1, articles |-> <<>>]
  ELSE [exit |-> -1,
        articles |-> SortByEngagement(FeedLoop(response.items, now, time_delta))]

\* ------------------------------------------------------------- get_clicky

\* The loop of get_clicky over the items: url[3] of a URL with fewer than
\* four pieces raises IndexError.
RECURSIVE ClickyLoop(_)
ClickyLoop(items) ==
  IF items = <<>> THEN [raised |-> FALSE, articles |-> <<>>]
  ELSE LET i == Head(items)
           url == Split(i.url, SLASH)
           rest == ClickyLoop(Tail(items))
       IN IF Len(url) < 4 THEN [raised |-> TRUE, articles |-> <<>>]
          ELSE IF rest.raised THEN rest
          ELSE IF url[4] = <<"news">> /\ Len(url) > 4
               THEN [raised |-> FALSE,
                     articles |-> <<[title |-> i.title, url |-> i.url]>> \o rest.articles]
               ELSE rest

\* get_clicky on the response of the pages request: response[0]['dates'][0]['items']
\* raises IndexError or KeyError on a response of another shape.
GetClicky(response) ==
  IF \/ response = <<>>
     \/ "dates" \notin DOMAIN response[1]
     \/ response[1].dates = <<>>
     \/ "items" \notin DOMAIN response[1].dates[1]
  THEN [raised |-> TRUE, articles |-> <<>>]
  ELSE ClickyLoop(response[1].dates[1].items)

\* ----------------------------------------------------------- check_posted

\* check_posted with the count tested one article too late
RECURSIVE CheckPostedLoopOneMore(_, _, _, _)
CheckPostedLoopOneMore(source, count, posted, added) ==
  IF source = <<>> THEN <<>>
  ELSE IF added > count THEN <<>>
  ELSE IF InSeq(Head(source).url, posted)
       THEN CheckPostedLoopOneMore(Tail(source), count, posted, added)
       ELSE <<Head(source)>> \o CheckPostedLoopOneMore(Tail(source), count, posted, added + 1)

RECURSIVE CheckPostedLoop(_, _, _, _)
CheckPostedLoop(source, count, posted, added) ==
  IF source = <<>> THEN <<>>
  ELSE IF added = count THEN <<>>
  ELSE IF InSeq(Head(source).url, posted)
       THEN CheckPostedLoop(Tail(source), count, posted, added)
       ELSE <<Head(source)>> \o CheckPostedLoop(Tail(source), count, posted, added + 1)

CheckPosted(source, count, posted) == CheckPostedLoop(source, count, posted, 0)

\* ------------------------------------------------------ get_posting_times

\* The loop of get_posting_times from index k on. rnd[k] is the pair the two
\* randint(1, 59) calls of iteration k return. datetime() raises ValueError
\* for an hour outside 0..23.
\* get_posting_times without the step to the next hour
RECURSIVE PostingTimesLoopNoBump(_, _, _, _)
PostingTimesLoopNoBump(posting_hrs, today, rnd, k) ==
  IF k > Len(posting_hrs) THEN [raised |-> FALSE, timestamps |-> <<>>]
  ELSE LET h == HourOf(today)
           hour == posting_hrs[k]
           rest == PostingTimesLoopNoBump(posting_hrs, today, rnd, k + 1)
       IN IF h > posting_hrs[k] THEN rest
          ELSE IF hour \notin 0..23 THEN [raised |-> TRUE, timestamps |-> <<>>]
          ELSE IF rest.raised THEN rest
          ELSE [raised |-> FALSE,
                timestamps |-> <<TimeGm(DayOf(today), hour, rnd[k][1], rnd[k][2])>>
                               \o rest.timestamps]

RECURSIVE PostingTimesLoop(_, _, _, _)
PostingTimesLoop(posting_hrs, today, rnd, k) ==
  IF k > Len(posting_hrs) THEN [raised |-> FALSE, timestamps |-> <<>>]
  ELSE LET h == HourOf(today)
           hour == IF h = posting_hrs[k] THEN posting_hrs[k] + 1 ELSE posting_hrs[k]
           rest == PostingTimesLoop(posting_hrs, today, rnd, k + 1)
       IN IF h > posting_hrs[k] THEN rest
          ELSE IF hour \notin 0..23 THEN [raised |-> TRUE, timestamps |-> <<>>]
          ELSE IF rest.raised THEN rest
          ELSE [raised |-> FALSE,
                timestamps |-> <<TimeGm(DayOf(today), hour, rnd[k][1], rnd[k][2])>>
                               \o rest.timestamps]

GetPostingTimes(posting_hrs, today, rnd) == PostingTimesLoop(posting_hrs, today, rnd, 1)

\* -------------------------------------------------------- schedule_buffer

\* The profiles schedule_buffer accepts. config['buffer']['profiles'] maps
\* each to its identifier, here the name itself.
Profiles == {"twitter", "linkedin"}

\* schedule_buffer(status_text, profile, scheduled) when the scheduling API
\* answers reply. profile and scheduled are [type, val] pairs of the Python
\* type and the value. raised names the exception that ends the call ("" for
\* none), requests are the payloads handed to make_request, response is the
\* value returned.
ScheduleBuffer(status_text, profile, scheduled, reply) ==
  LET no(exc) == [raised |-> exc, requests |-> <<>>, response |-> [success |-> FALSE]]
      falsy == \/ scheduled.type = "int" /\ scheduled.val = 0
               \/ scheduled.type = "str" /\ scheduled.val = <<>>
      payload == IF falsy
                 THEN [profile_ids |-> profile.val, text |-> status_text, now |-> TRUE]
                 ELSE [profile_ids |-> profile.val, text |-> status_text,
                       scheduled_at |-> scheduled.val]
  IN IF profile.type = "str" /\ profile.val \notin Profiles THEN no("AssertionError")
     ELSE IF profile.type = "list" THEN no("NotImplementedError")
     ELSE IF profile.type # "str" THEN no("UnboundLocalError")
     ELSE IF ~falsy /\ scheduled.type = "str" THEN no("NotImplementedError")
     ELSE IF ~falsy /\ scheduled.type = "int" /\ StrLen(scheduled.val) # 10
          THEN no("AssertionError")
     ELSE [raised |-> "", requests |-> <<payload>>, response |-> reply]

\* ------------------------------------------------------- the run of main()

VARIABLES
  clock,          \* the UTC time, in epoch seconds
  config,         \* config.json: posting_hours and articles
  done_today,     \* the text of done_today.txt
  posted_txt,     \* the text of posted.txt
  pc,             \* where the process is: "idle" before the first run, "exited" after one
  argv,           \* sys.argv[1:] of the run
  utc_today,      \* the time stamp main() took when it started
  feedly,         \* what get_feed() returned
  clicky,         \* what get_clicky() returned
  posted,         \* the history in memory
  to_schedule,    \* the shuffled candidates
  posting_times,  \* what get_posting_times() returned
  index,          \* the position of the scheduling loop, from 1
  exit_code,      \* the exit status of the run, -1 while it runs
  log,            \* the network requests of the run, in order
  start,          \* the two files as they were when the run started
  prev,           \* the run before this one: its arguments, date and outcome
  cycles,         \* the dates of the runs that wrote the run marker, in order
  call,           \* a function called on its own, with its arguments
  ret             \* what that call returned

main_vars == <<clock, config, done_today, posted_txt, pc, argv, utc_today, feedly,
               clicky, posted, to_schedule, posting_times, index, exit_code, log,
               start, prev, cycles>>

vars == <<main_vars, call, ret>>

\* The URLs of the model: two news pages, the first of them again with a
\* blank after it, a page outside /news/, and one with no path at all.
UA == <<"http:", SLASH, SLASH, "s", SLASH, "news", SLASH, "a">>
UB == <<"http:", SLASH, SLASH, "s", SLASH, "news", SLASH, "b">>
UAP == UA \o <<SP>>
UOther == <<"http:", SLASH, SLASH, "s", SLASH, "other", SLASH, "x">>
UShort == <<"s">>

FeedURLs == {UA, UB, UAP}
ClickyURLs == {UA, UB, UOther, UShort}
Title == <<"t">>

\* The hours of day the clock is read at, and the minute and second.
ClockHours == {8, 14, 23}
ClockTimes == {TimeGm(d, h, 30, 30) : d \in 1..MaxDay, h \in ClockHours}

\* The values of randint(1, 59) the model draws.
RandInts == {1, 59}

\* What the two randint(1, 59) calls return in a run of main(): one of these
\* pairs for every slot.
RandPairs == {<<1, 59>>, <<59, 1>>}

PostingHourLists == {<<9, 14>>, <<23>>}

Configs ==
  {[posting_hours |-> hrs, articles |-> [feedly |-> f, clicky |-> c]] :
     hrs \in PostingHourLists, f \in 0..MaxCount, c \in 0..MaxCount}

SeqsUpTo(S, n) == UNION {[1..k -> S] : k \in 0..n}

\* The responses of the stream request at time now: an error object, an
\* object without items, and item lists.
FeedItems(now) ==
  {[title |-> Title, originId |-> u, published |-> now - 3600] : u \in FeedURLs}

FeedResponses(now) ==
  {[errorCode |-> 401, errorMessage |-> <<"unauthorized">>], [items |-> <<>>]}
  \cup {[items |-> items] : items \in SeqsUpTo(FeedItems(now), MaxItems) \ {<<>>}}

\* The responses of the pages request: no result set, an error object, and
\* item lists.
ClickyResponses ==
  {<<>>, <<[error |-> <<"invalid">>]>>}
  \cup {<<[dates |-> <<[items |-> items]>>]>> :
          items \in SeqsUpTo([title : {Title}, url : ClickyURLs], MaxItems)}

\* A response of the stream request that is an error or holds nothing.
FeedEmptyOrError(response) ==
  "errorCode" \in DOMAIN response \/ "items" \notin DOMAIN response
  \/ response.items = <<>>

\* A response of the pages request that is an error or holds nothing.
ClickyEmptyOrError(response) ==
  response = <<>> \/ "error" \in DOMAIN response[1]

\* The answers of the scheduling API to updates/create.
Replies == {[success |-> TRUE], [success |-> FALSE, message |-> <<"rejected">>]}

ArgLists == {<<>>, <<"streams">>, <<"other">>, <<"streams", "other">>}

\* What is kept of a run for the next one to be compared with: whether it had
\* no arguments, its date, whether it made a network request and its exit
\* status.
NoRun == [noargs |-> FALSE, date |-> <<>>, net |-> FALSE, exit_code |-> -1]

NoCall == [fn |-> "none"]
NoRet == [done |-> FALSE]

InitMain ==
  /\ clock \in {t \in ClockTimes : DayOf(t) = 1}
  /\ config \in Configs
  /\ done_today \in {DateStr(TimeGm(0, 8, 30, 30)), DateStr(TimeGm(1, 8, 30, 30))}
  /\ posted_txt \in {<<>>, WritePostedText(<<UB>>)}
  /\ pc = "idle"
  /\ argv = <<>>
  /\ utc_today = StrfTime(clock)
  /\ feedly = <<>>
  /\ clicky = <<>>
  /\ posted = <<>>
  /\ to_schedule = <<>>
  /\ posting_times = <<>>
  /\ index = 1
  /\ exit_code = -1
  /\ log = <<>>
  /\ start = [done_today |-> done_today, posted_txt |-> posted_txt]
  /\ prev = NoRun
  /\ cycles = <<>>

Init == InitMain /\ call = NoCall /\ ret = NoRet

\* The process ends with status code, by sys.exit(code), by an exception
\* nobody catches (1) or by the return of main() (0): its memory is gone.
Exit(code) ==
  /\ pc' = "exited"
  /\ exit_code' = code
  /\ feedly' = <<>> /\ clicky' = <<>> /\ posted' = <<>> /\ to_schedule' = <<>>
  /\ posting_times' = <<>> /\ index' = 1

\* Time passes between two runs: a run is over before the clock of the model
\* moves.
Tick ==
  /\ pc \in {"idle", "exited"}
  /\ \E t \in ClockTimes : t > clock /\ clock' = t
  /\ UNCHANGED <<config, done_today, posted_txt, pc, argv, utc_today, feedly, clicky,
                 posted, to_schedule, posting_times, index, exit_code, log, start, prev,
                 cycles, call, ret>>

\* The marker compared with the whole stamp, date and time
DoneTodayWholeStamp == Strip(done_today) = StrfTime(clock)

\* last == utc_today.split(' ')[0], with last the stripped text of
\* done_today.txt and utc_today the stamp just taken
DoneToday == Strip(done_today) = DatePart(StrfTime(clock))

\* The process is started with the arguments args: main() up to the check of
\* the run marker.
Main(args) ==
  /\ pc \in {"idle", "exited"}
  /\ argv' = args
  /\ utc_today' = StrfTime(clock)
  /\ start' = [done_today |-> done_today, posted_txt |-> posted_txt]
  /\ prev' = IF pc = "idle" THEN NoRun
             ELSE [noargs |-> argv = <<>>, date |-> DatePart(utc_today),
                   net |-> log # <<>>, exit_code |-> exit_code]
  /\ IF Len(args) = 1
     THEN IF args[1] = "streams"
          THEN log' = <<[call |-> "profiles"]>> /\ Exit(0)
          ELSE log' = <<>> /\ Exit(1)
     ELSE /\ log' = <<>>
          /\ IF DoneToday
             THEN Exit(0)
             ELSE /\ pc' = "config" /\ exit_code' = -1
                  /\ UNCHANGED <<feedly, clicky, posted, to_schedule, posting_times, index>>
  /\ UNCHANGED <<clock, config, done_today, posted_txt, cycles, call, ret>>

\* main() without the assertion on the configuration
CheckConfigSkipped ==
  /\ pc = "config"
  /\ pc' = "get_feed"
  /\ UNCHANGED <<exit_code, feedly, clicky, posted, to_schedule, posting_times, index>>
  /\ UNCHANGED <<clock, config, done_today, posted_txt, argv, utc_today, log, start,
                 prev, cycles, call, ret>>

\* assert len(config['posting_hours']) == sum(articles.values())
CheckConfig ==
  /\ pc = "config"
  /\ IF Len(config.posting_hours) = config.articles.feedly + config.articles.clicky
     THEN /\ pc' = "get_feed"
          /\ UNCHANGED <<exit_code, feedly, clicky, posted, to_schedule, posting_times,
                         index>>
     ELSE Exit(1)
  /\ UNCHANGED <<clock, config, done_today, posted_txt, argv, utc_today, log, start,
                 prev, cycles, call, ret>>

\* feedly = get_feed()
CallGetFeed(response) ==
  /\ pc = "get_feed"
  /\ log' = Append(log, [call |-> "feedly", failed |-> FeedEmptyOrError(response)])
  /\ LET r == GetFeed(response, clock, 1) IN
       IF r.exit = 1
       THEN Exit(1)
       ELSE /\ pc' = "get_clicky"
            /\ feedly' = r.articles
            /\ UNCHANGED <<exit_code, clicky, posted, to_schedule, posting_times, index>>
  /\ UNCHANGED <<clock, config, done_today, posted_txt, argv, utc_today, start, prev,
                 cycles, call, ret>>

\* clicky = get_clicky()
CallGetClicky(response) ==
  /\ pc = "get_clicky"
  /\ log' = Append(log, [call |-> "clicky", failed |-> ClickyEmptyOrError(response)])
  /\ LET r == GetClicky(response) IN
       IF r.raised
       THEN Exit(1)
       ELSE /\ pc' = "select"
            /\ clicky' = r.articles
            /\ UNCHANGED <<exit_code, feedly, posted, to_schedule, posting_times, index>>
  /\ UNCHANGED <<clock, config, done_today, posted_txt, argv, utc_today, start, prev,
                 cycles, call, ret>>

\* shuffle(x): the list in the order p, a permutation of its positions
Shuffled(x, p) == [k \in 1..Len(x) |-> x[p[k]]]

\* feedly_urls + clicky_urls of main(), with posted.txt as it is
Candidates ==
  CheckPosted(feedly, config.articles.feedly, LoadPosted(posted_txt))
  \o CheckPosted(clicky, config.articles.clicky, LoadPosted(posted_txt))

\* From the loading of posted.txt to the shuffle: the candidates and the slots.
Select(rnd, p) ==
  /\ pc = "select"
  /\ LET times == GetPostingTimes(config.posting_hours, clock, rnd) IN
       IF times.raised
       THEN Exit(1)
       ELSE /\ pc' = "schedule"
            /\ posted' = LoadPosted(posted_txt)
            /\ posting_times' = times.timestamps
            /\ to_schedule' = Shuffled(Candidates, p)
            /\ UNCHANGED <<exit_code, feedly, clicky, index>>
  /\ UNCHANGED <<clock, config, done_today, posted_txt, argv, utc_today, log, start,
                 prev, cycles, call, ret>>

\* The scheduling loop with posted.txt written again at every success
ScheduleNextWriting(reply) ==
  /\ pc = "schedule"
  /\ index <= Len(posting_times)
  /\ IF index > Len(to_schedule)
     THEN Exit(1) /\ log' = log /\ posted_txt' = posted_txt
     ELSE LET a == to_schedule[index]
              r == ScheduleBuffer(a.title \o <<SP>> \o a.url,
                                  [type |-> "str", val |-> "twitter"],
                                  [type |-> "int", val |-> posting_times[index]], reply)
          IN IF r.raised # ""
             THEN Exit(1) /\ log' = log /\ posted_txt' = posted_txt
             ELSE /\ log' = Append(log, [call |-> "buffer", url |-> a.url,
                                         success |-> r.response.success])
                  /\ posted' = IF r.response.success THEN Append(posted, a.url) ELSE posted
                  /\ posted_txt' = WritePostedText(posted')
                  /\ index' = index + 1
                  /\ UNCHANGED <<pc, exit_code, feedly, clicky, to_schedule, posting_times>>
  /\ UNCHANGED <<clock, config, done_today, argv, utc_today, start, prev, cycles, call, ret>>

\* One pass of the scheduling loop: to_schedule[index] raises IndexError when
\* the slots outnumber the candidates.
ScheduleNext(reply) ==
  /\ pc = "schedule"
  /\ index <= Len(posting_times)
  /\ IF index > Len(to_schedule)
     THEN Exit(1) /\ log' = log
     ELSE LET a == to_schedule[index]
              r == ScheduleBuffer(a.title \o <<SP>> \o a.url,
                                  [type |-> "str", val |-> "twitter"],
                                  [type |-> "int", val |-> posting_times[index]], reply)
          IN IF r.raised # ""
             THEN Exit(1) /\ log' = log
             ELSE /\ log' = Append(log, [call |-> "buffer", url |-> a.url,
                                         success |-> r.response.success])
                  /\ posted' = IF r.response.success THEN Append(posted, a.url) ELSE posted
                  /\ index' = index + 1
                  /\ UNCHANGED <<pc, exit_code, feedly, clicky, to_schedule, posting_times>>
  /\ UNCHANGED <<clock, config, done_today, posted_txt, argv, utc_today, start, prev,
                 cycles, call, ret>>

\* The loop is over: posted.txt is written again from the history in memory.
WritePosted ==
  /\ pc = "schedule"
  /\ index > Len(posting_times)
  /\ posted_txt' = WritePostedText(posted)
  /\ pc' = "write_done"
  /\ UNCHANGED <<clock, config, done_today, argv, utc_today, feedly, clicky, posted,
                 to_schedule, posting_times, index, exit_code, log, start, prev, cycles,
                 call, ret>>

\* The marker written as the whole stamp, date and time
WriteDoneWholeStamp ==
  /\ pc = "write_done"
  /\ done_today' = utc_today
  /\ cycles' = Append(cycles, DatePart(utc_today))
  /\ Exit(0)
  /\ UNCHANGED <<clock, config, posted_txt, argv, utc_today, log, start, prev, call, ret>>

\* done_today.txt is written, and main() returns.
WriteDone ==
  /\ pc = "write_done"
  /\ done_today' = DatePart(utc_today)
  /\ cycles' = Append(cycles, DatePart(utc_today))
  /\ Exit(0)
  /\ UNCHANGED <<clock, config, posted_txt, argv, utc_today, log, start, prev, call, ret>>

Next ==
  \/ Tick
  \/ \E args \in ArgLists : Main(args)
  \/ CheckConfig
  \/ \E response \in FeedResponses(clock) : CallGetFeed(response)
  \/ \E response \in ClickyResponses : CallGetClicky(response)
  \/ \E rnd \in {[k \in 1..Len(config.posting_hours) |-> pair] : pair \in RandPairs} :
       \E p \in Permutations(1..Len(Candidates)) : Select(rnd, p)
  \/ \E reply \in Replies : ScheduleNext(reply)
  \/ WritePosted
  \/ WriteDone

Spec == Init /\ [][Next]_vars

\* ------------------------------------------- the functions on their own

\* The run of main() at rest, while a function is called on its own.
Parked ==
  /\ clock = TimeGm(1, 8, 30, 30)
  /\ config = [posting_hours |-> <<9, 14>>, articles |-> [feedly |-> 1, clicky |-> 1]]
  /\ done_today = DateStr(TimeGm(0, 8, 30, 30))
  /\ posted_txt = <<>>
  /\ pc = "idle"
  /\ argv = <<>>
  /\ utc_today = StrfTime(clock)
  /\ feedly = <<>>
  /\ clicky = <<>>
  /\ posted = <<>>
  /\ to_schedule = <<>>
  /\ posting_times = <<>>
  /\ index = 1
  /\ exit_code = -1
  /\ log = <<>>
  /\ start = [done_today |-> done_today, posted_txt |-> posted_txt]
  /\ prev = NoRun
  /\ cycles = <<>>

\* check_posted(source, count, posted) for candidate lists, counts and
\* histories of every kind.
InitCheckPosted ==
  /\ Parked
  /\ call \in {[fn |-> "check_posted", source |-> src, count |-> n, posted |-> h] :
                 src \in SeqsUpTo([title : {Title}, url : FeedURLs], MaxSource),
                 n \in 0..MaxCount,
                 h \in SeqsUpTo({UA, UB}, MaxPosted)}
  /\ ret = NoRet

ReturnCheckPosted ==
  /\ call.fn = "check_posted"
  /\ ~ret.done
  /\ ret' = [done |-> TRUE, val |-> CheckPosted(call.source, call.count, call.posted)]
  /\ UNCHANGED <<main_vars, call>>

SpecCheckPosted == InitCheckPosted /\ [][ReturnCheckPosted]_vars

\* get_posting_times() at every hour of the day, early and late in the hour,
\* for lists of posting hours and for the minutes and seconds drawn.
HourChoices == {0, 9, 14, 22, 23}

InitPostingTimes ==
  /\ Parked
  /\ call \in {[fn |-> "get_posting_times", posting_hrs |-> hrs, today |-> t, rnd |-> r] :
                 hrs \in SeqsUpTo(HourChoices, MaxHours),
                 t \in {TimeGm(1, h, ms, ms) : h \in 0..23, ms \in {0, 59}},
                 r \in [1..MaxHours -> RandInts \X RandInts]}
  /\ ret = NoRet

ReturnPostingTimes ==
  /\ call.fn = "get_posting_times"
  /\ ~ret.done
  /\ ret' = [done |-> TRUE, val |-> GetPostingTimes(call.posting_hrs, call.today, call.rnd)]
  /\ UNCHANGED <<main_vars, call>>

SpecPostingTimes == InitPostingTimes /\ [][ReturnPostingTimes]_vars

\* schedule_buffer(status_text, profile, scheduled) for profiles and scheduled
\* times of every kind.
ProfileArgs ==
  {[type |-> "str", val |-> "twitter"], [type |-> "str", val |-> "linkedin"],
   [type |-> "str", val |-> "facebook"], [type |-> "list", val |-> "twitter"]}

ScheduledArgs ==
  {[type |-> "int", val |-> n] :
     n \in {0, 5, 999999999, 1000000000, 1607126461, 2147483647,
            -5, -99999999, -123456789, -999999999, -1000000000}}
  \cup {[type |-> "str", val |-> <<>>], [type |-> "str", val |-> <<"soon">>]}

InitScheduleBuffer ==
  /\ Parked
  /\ call \in {[fn |-> "schedule_buffer", status_text |-> Title \o <<SP>> \o UA,
                profile |-> pr, scheduled |-> sc, reply |-> rp] :
                 pr \in ProfileArgs, sc \in ScheduledArgs, rp \in Replies}
  /\ ret = NoRet

ReturnScheduleBuffer ==
  /\ call.fn = "schedule_buffer"
  /\ ~ret.done
  /\ ret' = [done |-> TRUE,
             val |-> ScheduleBuffer(call.status_text, call.profile, call.scheduled,
                                    call.reply)]
  /\ UNCHANGED <<main_vars, call>>

SpecScheduleBuffer == InitScheduleBuffer /\ [][ReturnScheduleBuffer]_vars

\* get_feed(time_delta) on item lists in the order of the API, newest first:
\* items aged 0, 1 and 2 days with engagements of three sizes, an item with no
\* engagement, and an item with no publish time.
FeedAges == {0, 1, 2}
Engagements == {2, 5, 10}
TimeDeltas == {1, 2}

UnitFeedItems(now) ==
  {[title |-> Title, originId |-> UA, engagement |-> e,
    published |-> now - a * SecondsPerDay - 3600] : a \in FeedAges, e \in Engagements}
  \cup {[title |-> Title, originId |-> UB, published |-> now - 3600],
        [title |-> Title, originId |-> UB]}

\* The order of the API: no item is newer than one before it.
NewestFirst(items) ==
  \A j, k \in 1..Len(items) :
    (j < k /\ "published" \in DOMAIN items[j] /\ "published" \in DOMAIN items[k])
      => items[j].published >= items[k].published

InitGetFeed ==
  /\ Parked
  /\ call \in {[fn |-> "get_feed", response |-> [items |-> items], now |-> clock,
                time_delta |-> d] :
                 items \in {x \in SeqsUpTo(UnitFeedItems(clock), MaxFeed) : NewestFirst(x)},
                 d \in TimeDeltas}
  /\ ret = NoRet

ReturnGetFeed ==
  /\ call.fn = "get_feed"
  /\ ~ret.done
  /\ ret' = [done |-> TRUE, val |-> GetFeed(call.response, call.now, call.time_delta)]
  /\ UNCHANGED <<main_vars, call>>

SpecGetFeed == InitGetFeed /\ [][ReturnGetFeed]_vars

\* ------------------------------------------------------------- properties

\* The run takes the path of a scheduling cycle: main() leaves early only for
\* a single argument.
CycleRun == pc # "idle" /\ Len(argv) # 1

\* The date of the run.
RunDate == DatePart(utc_today)

\* The run found the marker of its own date in done_today.txt.
MarkerWasToday == Strip(start.done_today) = RunDate

\* Neither file differs from what it was when the run started.
FilesUnchanged == done_today = start.done_today /\ posted_txt = start.posted_txt

\* The calls of schedule_buffer that reached the network, in order.
BufferCalls == SelectSeq(log, LAMBDA e : e.call = "buffer")

URLsOf(entries) == [k \in 1..Len(entries) |-> entries[k].url]

\* The run made no request, changed no file and ended with status 0.
NoOpExit == pc = "exited" /\ exit_code = 0 /\ log = <<>> /\ FilesUnchanged

\* The run before this one had no arguments either and was on the same date.
SecondOfTwo == pc # "idle" /\ argv = <<>> /\ prev.noargs /\ prev.date = RunDate

\* C1 as stated: of two runs without arguments on one UTC date, one after the
\* other, the second makes no request, changes nothing and exits with 0.
C1_SecondRunNoOp == (SecondOfTwo /\ pc = "exited") => NoOpExit

\* C1, amended: of two runs without arguments on one UTC date, one after the
\* other, the second makes no request, changes nothing and exits with 0 when
\* the first exited with 0 (it completed the cycle, or found the marker of the
\* day); so the fetches and the scheduling are done by at most one of them.
C1_SecondRunNoOpAfterSuccess ==
  (SecondOfTwo /\ prev.exit_code = 0) => (NoOpExit /\ ~(prev.net /\ log # <<>>))

\* Two runs on one date, the first of which fetched, scheduled and completed,
\* and the second is over.
C1_Witness == SecondOfTwo /\ prev.exit_code = 0 /\ prev.net /\ pc = "exited"

\* The scheduling loop is running with more slots than candidates.
ExcessSlots == pc = "schedule" /\ Len(posting_times) > Len(to_schedule)

\* C2 as stated: with more slots than candidates, the loop ends without an
\* error, min(slots, candidates) posts have been handed to schedule_buffer,
\* and the run goes on to write the history and the marker.
C2_ExcessSlotsUnused ==
  [][ExcessSlots =>
       /\ pc' # "exited"
       /\ pc' = "write_done" =>
            /\ Len(BufferCalls) = Min(Len(posting_times), Len(to_schedule))
            /\ posted_txt' = WritePostedText(posted)]_vars

\* C3 as stated: no URL that is a line of posted.txt when the run starts is
\* handed to schedule_buffer by that run.
C3_HistoryNeverRescheduled ==
  \A k \in 1..Len(log) :
    log[k].call = "buffer" =>
      ~InSeq(log[k].url \o <<NL>>, ReadLines(start.posted_txt))

\* A response of an upstream API in this run was an error or held nothing.
FetchFailed ==
  \E k \in 1..Len(log) : log[k].call \in {"feedly", "clicky"} /\ log[k].failed

Mismatch ==
  Len(config.posting_hours) # config.articles.feedly + config.articles.clicky

\* C5 as stated: with such a configuration a run fails, with a status other
\* than 0, before any request and before any write.
C5_MismatchFails ==
  (Mismatch /\ CycleRun) =>
    (log = <<>> /\ FilesUnchanged /\ (pc = "exited" => exit_code # 0))

\* C5, amended: with such a configuration a run makes no request and writes
\* nothing; it ends with status 1 at the assertion, unless done_today.txt
\* holds the date of the run, which ends it with status 0 before the
\* configuration is looked at.
C5_MismatchNoSideEffect ==
  (Mismatch /\ CycleRun) =>
    /\ log = <<>> /\ FilesUnchanged
    /\ pc \in {"config", "exited"}
    /\ pc = "exited" => exit_code = (IF MarkerWasToday THEN 0 ELSE 1)

\* A run with such a configuration has failed at the assertion.
C5_Witness == Mismatch /\ CycleRun /\ pc = "exited" /\ exit_code = 1 /\ ~MarkerWasToday

\* The calls of schedule_buffer of this run that reported a failure, and
\* those that reported success.
Failures == SelectSeq(BufferCalls, LAMBDA e : ~e.success)
Successes == SelectSeq(BufferCalls, LAMBDA e : e.success)

\* C6 as stated: once a call of schedule_buffer has reported a failure, the
\* loop still hands every remaining pair on and the run completes; posted.txt
\* is then the history loaded at the start followed by the URLs of the calls
\* that reported success, in order, and holds no URL whose call failed unless
\* the history loaded at the start held it.
C6_FailuresTolerated ==
  [][(pc = "schedule" /\ Failures # <<>>) =>
       /\ pc' # "exited"
       /\ pc' = "write_done" =>
            /\ Len(BufferCalls) = Min(Len(posting_times), Len(to_schedule))
            /\ posted_txt' = WritePostedText(LoadPosted(start.posted_txt)
                                             \o URLsOf(Successes))
            /\ \A k \in 1..Len(Failures) :
                 InSeq(Failures[k].url \o <<NL>>, ReadLines(posted_txt')) =>
                   InSeq(Failures[k].url, LoadPosted(start.posted_txt))]_vars

\* C7: a run that starts when done_today.txt holds its own date makes no
\* request, changes neither file and exits with 0; and no two runs write the
\* marker for the same date.
C7_OnceADay ==
  /\ (CycleRun /\ MarkerWasToday) => NoOpExit
  /\ \A j, k \in 1..Len(cycles) : cycles[j] = cycles[k] => j = k

\* A run has written the marker for its date, and a later run on that date
\* is over.
C7_Witness ==
  /\ CycleRun /\ MarkerWasToday /\ pc = "exited"
  /\ cycles # <<>> /\ cycles[Len(cycles)] = RunDate

\* A ten-digit integer: a present-day epoch in seconds.
TenDigits(n) == 1000000000 <= n /\ n \div 10 <= 999999999

\* C8 as stated: schedule_buffer, given as the scheduled time an integer that
\* is not a ten-digit epoch, fails before it makes a request. (0 is left out:
\* it is the default, and stands for no scheduled time.)
C8_NonEpochFails ==
  (/\ call.fn = "schedule_buffer" /\ ret.done
   /\ call.scheduled.type = "int"
   /\ call.scheduled.val # 0
   /\ ~TenDigits(call.scheduled.val))
  => (ret.val.raised # "" /\ ret.val.requests = <<>>)

\* The candidates whose URL is not in the history, in their order.
Unposted(candidates, history) ==
  SelectSeq(candidates, LAMBDA a : ~InSeq(a.url, history))

\* C9: check_posted(source, count, posted) returns the first min(count, k) of
\* the k candidates of source whose URL is not in posted, in the order of
\* source.
C9_CheckPosted ==
  (call.fn = "check_posted" /\ ret.done) =>
    LET u == Unposted(call.source, call.posted)
    IN ret.val = SubSeq(u, 1, Min(call.count, Len(u)))

\* check_posted has skipped a posted candidate at the head of the list, has
\* kept one, and has returned fewer than count.
C9_Witness ==
  /\ call.fn = "check_posted" /\ ret.done
  /\ call.source # <<>> /\ InSeq(call.source[1].url, call.posted)
  /\ Len(ret.val) = 1 /\ call.count = 2

\* C10: every timestamp get_posting_times returns lies in the hour of its
\* posting hour or in the hour after it, and none lies before the time the
\* function read the clock at. The posting hours that yield a timestamp are
\* those not before the hour of the clock, in order.
C10_PostingTimes ==
  (call.fn = "get_posting_times" /\ ret.done) =>
    LET h == HourOf(call.today)
        kept == SelectSeq(call.posting_hrs, LAMBDA c : c >= h)
        ts == ret.val.timestamps
    IN \A k \in 1..Len(ts) :
         /\ k <= Len(kept)
         /\ HourOf(ts[k]) \in {kept[k], kept[k] + 1}
         /\ ts[k] >= call.today

\* get_posting_times was called late in the hour of its first posting hour and
\* has returned a timestamp in the hour after it.
C10_Witness ==
  /\ call.fn = "get_posting_times" /\ ret.done
  /\ call.posting_hrs # <<>> /\ call.posting_hrs[1] = HourOf(call.today)
  /\ call.today % 3600 = 59 * 60 + 59
  /\ ret.val.timestamps # <<>>
  /\ HourOf(ret.val.timestamps[1]) = HourOf(call.today) + 1

\* The run that is over was a whole cycle: it wrote the marker of its date.
Completed == pc = "exited" /\ cycles # <<>> /\ done_today = RunDate /\ exit_code = 0

\* C11 as stated: a run without arguments takes the path of the cycle, and
\* ends with status 0 only at the marker of the day or after the whole cycle;
\* a run with the one argument "streams" lists the profiles, ends with status
\* 0 and leaves both files alone; a run with any other argument list ends with
\* a status other than 0, with no request made and both files left alone.
C11_ArgumentSurface ==
  pc # "idle" =>
    /\ argv = <<>> =>
         /\ \A k \in 1..Len(log) : log[k].call # "profiles"
         /\ (pc = "exited" /\ exit_code = 0) => (MarkerWasToday \/ Completed)
    /\ argv = <<"streams">> =>
         /\ pc = "exited" /\ exit_code = 0 /\ FilesUnchanged
         /\ log = <<[call |-> "profiles"]>>
    /\ argv \notin {<<>>, <<"streams">>} =>
         /\ pc = "exited" /\ exit_code # 0 /\ FilesUnchanged
         /\ log = <<>>

\* The run has handed a post to schedule_buffer with success.
SomeSuccess == Successes # <<>>

\* C12: posted.txt and done_today.txt are written only after the scheduling
\* loop is over, the history first and the marker after it; a run that fails
\* or that finds the marker of its date leaves both files as they were when it
\* started, whatever it has scheduled.
C12_WritesOnlyAfterLoop ==
  CycleRun =>
    /\ pc \in {"config", "get_feed", "get_clicky", "select", "schedule"} => FilesUnchanged
    /\ pc = "write_done" =>
         /\ done_today = start.done_today
         /\ posted_txt = WritePostedText(posted)
    /\ (pc = "exited" /\ (exit_code # 0 \/ MarkerWasToday)) => FilesUnchanged

\* A run has scheduled a post with success and has then failed in the loop.
C12_Witness ==
  CycleRun /\ pc = "exited" /\ exit_code = 1 /\ SomeSuccess /\ FilesUnchanged

\* C13 as stated: get_posting_times returns one timestamp for every posting
\* hour not before the hour of the clock and none for the others, in the order
\* of the configuration; the timestamp of the posting hour that is the hour of
\* the clock lies in the next hour of the day, every other in its own hour of
\* the day.
C13_OneSlotPerHour ==
  (call.fn = "get_posting_times" /\ ret.done) =>
    LET h == HourOf(call.today)
        kept == SelectSeq(call.posting_hrs, LAMBDA c : c >= h)
        ts == ret.val.timestamps
    IN /\ Len(ts) = Len(kept)
       /\ \A k \in 1..Len(ts) :
            /\ DayOf(ts[k]) = DayOf(call.today)
            /\ HourOf(ts[k]) = (IF kept[k] = h THEN h + 1 ELSE kept[k])

\* The age in whole days of an article get_feed returned.
AgeOf(a) == DeltaDays(call.now, a.published)

\* C14 as stated: every article get_feed(time_delta = d) returns for a list in
\* the order newest first has a publish time and an age in whole days below
\* d, and the articles are in the order of their engagement, largest first.
C14_FeedWindow ==
  (call.fn = "get_feed" /\ ret.done /\ ret.val.exit = -1) =>
    LET as == ret.val.articles
    IN \A k \in 1..Len(as) :
         /\ as[k].published # 0
         /\ AgeOf(as[k]) < call.time_delta
         /\ k < Len(as) => as[k].engagement >= as[k + 1].engagement

\* C15 as stated: no URL is handed to schedule_buffer twice in one run.
C15_NoURLTwice ==
  \A j, k \in 1..Len(BufferCalls) :
    BufferCalls[j].url = BufferCalls[k].url => j = k

====
